---- MODULE Spec2Model ----
(***************************************************************************)
(* apiRequest (src/lib/client/api-fetch-request/index.ts) together with    *)
(* the build-time replacement of __HONO_DOMAIN__ (vite config).            *)
(*                                                                         *)
(* A JavaScript string is a sequence of characters.  A character is a      *)
(* one-character TLA+ string for printable ASCII and "\n", and the name    *)
(* "U+XXXX" for the grave accent and the non-ASCII code units used below.  *)
(* A JavaScript object is the sequence of its own enumerable properties,   *)
(* in property order, each an entry [k |-> key, v |-> value] (keys are     *)
(* distinct; no key below is an array index, so property order is          *)
(* insertion order).                                                       *)
(***************************************************************************)
EXTENDS Integers, Sequences, FiniteSets, TLC

----------------------------------------------------------------------------
(* Characters, code points, UTF-8 *)

Ascii == <<" ","!","\"","#","$","%","&","'","(",")","*","+",",","-",".","/","0","1","2","3","4","5","6","7","8","9",":",";","<","=",">","?","@","A","B","C","D","E","F","G","H","I","J","K","L","M","N","O","P","Q","R","S","T","U","V","W","X","Y","Z","[","\\","]","^","_","U+0060","a","b","c","d","e","f","g","h","i","j","k","l","m","n","o","p","q","r","s","t","u","v","w","x","y","z","{","|","}","~">>

AsciiSet == {Ascii[i] : i \in 1..Len(Ascii)}

AsciiCode == [ch \in AsciiSet |-> 31 + (CHOOSE i \in 1..Len(Ascii) : Ascii[i] = ch)]

HexDigits == <<"0","1","2","3","4","5","6","7","8","9","A","B","C","D","E","F">>

DecDigits == {"0","1","2","3","4","5","6","7","8","9"}

CodePoint(ch) ==
  IF ch \in AsciiSet THEN AsciiCode[ch]
  ELSE CASE ch = "\n" -> 10
         [] ch = "U+00E9" -> 233
         [] ch = "U+D800" -> 55296
         [] ch = "U+FFFD" -> 65533

CharOf(cp) ==
  IF cp \in 32..126 THEN Ascii[cp - 31]
  ELSE CASE cp = 10 -> "\n"
         [] cp = 233 -> "U+00E9"
         [] cp = 65533 -> "U+FFFD"

\* An unpaired surrogate is not a Unicode scalar value.
IsLoneSurrogate(ch) == ch = "U+D800"

\* WebIDL USVString conversion: unpaired surrogates become U+FFFD.
ToUSVString(s) ==
  [i \in 1..Len(s) |-> IF IsLoneSurrogate(s[i]) THEN "U+FFFD" ELSE s[i]]

Utf8Encode(cp) ==
  IF cp < 128 THEN <<cp>>
  ELSE IF cp < 2048 THEN <<192 + (cp \div 64), 128 + (cp % 64)>>
  ELSE <<224 + (cp \div 4096), 128 + ((cp \div 64) % 64), 128 + (cp % 64)>>

RECURSIVE Utf8EncodeString(_)
Utf8EncodeString(s) ==
  IF s = <<>> THEN <<>>
  ELSE Utf8Encode(CodePoint(Head(s))) \o Utf8EncodeString(Tail(s))

IsContinuation(b, i) == i <= Len(b) /\ b[i] \in 128..191

\* UTF-8 decode without BOM; a malformed sequence decodes to U+FFFD.
RECURSIVE Utf8DecodeFrom(_, _)
Utf8DecodeFrom(b, i) ==
  IF i > Len(b) THEN <<>>
  ELSE IF b[i] < 128 THEN <<CharOf(b[i])>> \o Utf8DecodeFrom(b, i + 1)
  ELSE IF b[i] \in 194..223 /\ IsContinuation(b, i + 1)
    THEN <<CharOf((b[i] - 192) * 64 + (b[i + 1] - 128))>> \o Utf8DecodeFrom(b, i + 2)
  ELSE IF b[i] \in 224..239 /\ IsContinuation(b, i + 1) /\ IsContinuation(b, i + 2)
          /\ (b[i] - 224) * 4096 + (b[i + 1] - 128) * 64 + (b[i + 2] - 128) >= 2048
          /\ (b[i] - 224) * 4096 + (b[i + 1] - 128) * 64 + (b[i + 2] - 128) \notin 55296..57343
    THEN <<CharOf((b[i] - 224) * 4096 + (b[i + 1] - 128) * 64 + (b[i + 2] - 128))>>
           \o Utf8DecodeFrom(b, i + 3)
  ELSE <<"U+FFFD">> \o Utf8DecodeFrom(b, i + 1)

Utf8Decode(b) == Utf8DecodeFrom(b, 1)

----------------------------------------------------------------------------
(* JavaScript values *)

JStr(s) == [t |-> "string", s |-> s]
JNum(n) == [t |-> "number", n |-> n]
JNull == [t |-> "null"]
JUndefined == [t |-> "undefined"]
JObj(e) == [t |-> "object", e |-> e]

Entry(k, v) == [k |-> k, v |-> v]

\* Object.keys(o)
ObjectKeys(o) == [i \in 1..Len(o) |-> o[i].k]

HasKey(o, k) == \E i \in 1..Len(o) : o[i].k = k

\* o[k] = v: an existing property keeps its place, a new one is appended.
Put(o, k, v) ==
  IF HasKey(o, k)
    THEN [i \in 1..Len(o) |-> IF o[i].k = k THEN Entry(k, v) ELSE o[i]]
    ELSE Append(o, Entry(k, v))

RECURSIVE NumberToString(_)
NumberToString(n) ==
  IF n < 10 THEN <<HexDigits[n + 1]>>
  ELSE NumberToString(n \div 10) \o <<HexDigits[(n % 10) + 1]>>

\* ToString, as template literals and URLSearchParams apply it.
JsToString(v) ==
  CASE v.t = "string" -> v.s
    [] v.t = "number" -> NumberToString(v.n)
    [] v.t = "null" -> <<"n","u","l","l">>
    [] v.t = "undefined" -> <<"u","n","d","e","f","i","n","e","d">>
    [] v.t = "object" -> <<"[","o","b","j","e","c","t"," ","O","b","j","e","c","t","]">>

----------------------------------------------------------------------------
(* URLSearchParams: construction from a record, serialisation, parsing *)

\* new URLSearchParams(record): record<USVString, USVString> conversion.
RECURSIVE RecordToList(_, _)
RecordToList(o, acc) ==
  IF o = <<>> THEN acc
  ELSE RecordToList(Tail(o),
         Put(acc, ToUSVString(Head(o).k), ToUSVString(JsToString(Head(o).v))))

URLSearchParams(init) == RecordToList(init, <<>>)

\* Bytes outside the application/x-www-form-urlencoded percent-encode set.
UrlencodedUnreserved(b) ==
  b \in ({42, 45, 46, 95} \cup (48..57) \cup (65..90) \cup (97..122))

UrlencodedByte(b) ==
  IF b = 32 THEN <<"+">>
  ELSE IF UrlencodedUnreserved(b) THEN <<CharOf(b)>>
  ELSE <<"%", HexDigits[(b \div 16) + 1], HexDigits[(b % 16) + 1]>>

RECURSIVE UrlencodedBytes(_)
UrlencodedBytes(bytes) ==
  IF bytes = <<>> THEN <<>>
  ELSE UrlencodedByte(Head(bytes)) \o UrlencodedBytes(Tail(bytes))

\* A faulty variant: names and values are written into the query string as they are.
UrlencodedStringRaw(s) == s

UrlencodedString(s) == UrlencodedBytes(Utf8EncodeString(s))

\* URLSearchParams.prototype.toString(): name=value pairs joined by "&".
RECURSIVE UrlencodedSerialize(_)
UrlencodedSerialize(list) ==
  IF list = <<>> THEN <<>>
  ELSE UrlencodedString(Head(list).k) \o <<"=">> \o UrlencodedString(Head(list).v)
         \o (IF Len(list) > 1 THEN <<"&">> ELSE <<>>)
         \o UrlencodedSerialize(Tail(list))

IndexOf(s, ch) ==
  IF \E i \in 1..Len(s) : s[i] = ch
    THEN CHOOSE i \in 1..Len(s) : s[i] = ch /\ \A j \in 1..(i - 1) : s[j] # ch
    ELSE 0

RECURSIVE SplitOn(_, _)
SplitOn(s, ch) ==
  IF IndexOf(s, ch) = 0 THEN <<s>>
  ELSE <<SubSeq(s, 1, IndexOf(s, ch) - 1)>>
         \o SplitOn(SubSeq(s, IndexOf(s, ch) + 1, Len(s)), ch)

IsHexDigit(ch) == ch \in DecDigits \cup {"A","B","C","D","E","F","a","b","c","d","e","f"}

HexValue(ch) ==
  IF ch \in DecDigits THEN AsciiCode[ch] - 48
  ELSE IF AsciiCode[ch] >= 97 THEN AsciiCode[ch] - 87
  ELSE AsciiCode[ch] - 55

\* Percent-decode: "%" and two hex digits are one byte, anything else itself.
RECURSIVE PercentDecodeFrom(_, _)
PercentDecodeFrom(s, i) ==
  IF i > Len(s) THEN <<>>
  ELSE IF s[i] = "%" /\ i + 2 <= Len(s) /\ IsHexDigit(s[i + 1]) /\ IsHexDigit(s[i + 2])
    THEN <<HexValue(s[i + 1]) * 16 + HexValue(s[i + 2])>> \o PercentDecodeFrom(s, i + 3)
  ELSE Utf8Encode(CodePoint(s[i])) \o PercentDecodeFrom(s, i + 1)

PlusToSpace(s) == [i \in 1..Len(s) |-> IF s[i] = "+" THEN " " ELSE s[i]]

UrlencodedDecode(s) == Utf8Decode(PercentDecodeFrom(PlusToSpace(s), 1))

\* One name=value sequence of a query string.
ParsePair(s) ==
  IF IndexOf(s, "=") = 0 THEN Entry(UrlencodedDecode(s), <<>>)
  ELSE Entry(UrlencodedDecode(SubSeq(s, 1, IndexOf(s, "=") - 1)),
             UrlencodedDecode(SubSeq(s, IndexOf(s, "=") + 1, Len(s))))

RECURSIVE ParsePairs(_)
ParsePairs(seqs) ==
  IF seqs = <<>> THEN <<>>
  ELSE (IF Head(seqs) = <<>> THEN <<>> ELSE <<ParsePair(Head(seqs))>>)
         \o ParsePairs(Tail(seqs))

\* The application/x-www-form-urlencoded parser (new URLSearchParams(string)).
UrlencodedParse(s) == ParsePairs(SplitOn(s, "&"))

----------------------------------------------------------------------------
(* JSON.stringify and JSON.parse (the grammar without arrays, fractions    *)
(* and exponents, which no value below uses)                               *)

JBool(b) == [t |-> "boolean", b |-> b]

\* QuoteJSONString: the characters of s, escaped, between double quotes.
QuoteChar(ch) ==
  CASE ch = "\"" -> <<"\\", "\"">>
    [] ch = "\\" -> <<"\\", "\\">>
    [] ch = "\n" -> <<"\\", "n">>
    [] ch = "U+D800" -> <<"\\", "u", "d", "8", "0", "0">>
    [] OTHER -> <<ch>>

RECURSIVE QuoteChars(_)
QuoteChars(s) ==
  IF s = <<>> THEN <<>> ELSE QuoteChar(Head(s)) \o QuoteChars(Tail(s))

QuoteJSONString(s) == <<"\"">> \o QuoteChars(s) \o <<"\"">>

\* SerializeJSONProperty yields undefined for these: the property is left out.
IsUndefined(v) == v.t = "undefined"

DefinedEntries(e) == SelectSeq(e, LAMBDA x : ~IsUndefined(x.v))

RECURSIVE JSONStringify(_)
RECURSIVE StringifyMembers(_)

StringifyMembers(e) ==
  IF e = <<>> THEN <<>>
  ELSE QuoteJSONString(Head(e).k) \o <<":">> \o JSONStringify(Head(e).v)
         \o (IF Len(e) > 1 THEN <<",">> ELSE <<>>)
         \o StringifyMembers(Tail(e))

\* JSON.stringify(v), v not undefined.
JSONStringify(v) ==
  CASE v.t = "string" -> QuoteJSONString(v.s)
    [] v.t = "number" -> NumberToString(v.n)
    [] v.t = "boolean" -> IF v.b THEN <<"t","r","u","e">> ELSE <<"f","a","l","s","e">>
    [] v.t = "null" -> <<"n","u","l","l">>
    [] v.t = "object" -> <<"{">> \o StringifyMembers(DefinedEntries(v.e)) \o <<"}">>

ParseFail == [ok |-> FALSE]

Parsed(v, i) == [ok |-> TRUE, v |-> v, i |-> i]

IsWhitespace(ch) == ch \in {" ", "\n"}

RECURSIVE SkipWhitespace(_, _)
SkipWhitespace(s, i) ==
  IF i <= Len(s) /\ IsWhitespace(s[i]) THEN SkipWhitespace(s, i + 1) ELSE i

StartsWith(s, i, lit) ==
  /\ i + Len(lit) - 1 <= Len(s)
  /\ SubSeq(s, i, i + Len(lit) - 1) = lit

\* The code unit a \uXXXX escape names.
CodeUnitChar(cp) == IF cp = 55296 THEN "U+D800" ELSE CharOf(cp)

\* The characters of a JSON string from position i, up to its closing quote.
RECURSIVE ParseStringChars(_, _, _)
ParseStringChars(s, i, acc) ==
  IF i > Len(s) THEN ParseFail
  ELSE IF s[i] = "\"" THEN Parsed(acc, i + 1)
  ELSE IF s[i] = "\n" THEN ParseFail
  ELSE IF s[i] = "\\" THEN
    IF i + 1 > Len(s) THEN ParseFail
    ELSE IF s[i + 1] \in {"\"", "\\", "/"}
      THEN ParseStringChars(s, i + 2, Append(acc, s[i + 1]))
    ELSE IF s[i + 1] = "n" THEN ParseStringChars(s, i + 2, Append(acc, "\n"))
    ELSE IF s[i + 1] = "u" /\ i + 5 <= Len(s)
            /\ \A j \in (i + 2)..(i + 5) : IsHexDigit(s[j])
      THEN ParseStringChars(s, i + 6,
             Append(acc, CodeUnitChar(HexValue(s[i + 2]) * 4096 + HexValue(s[i + 3]) * 256
                                        + HexValue(s[i + 4]) * 16 + HexValue(s[i + 5]))))
    ELSE ParseFail
  ELSE ParseStringChars(s, i + 1, Append(acc, s[i]))

ParseString(s, i) ==
  IF i <= Len(s) /\ s[i] = "\"" THEN ParseStringChars(s, i + 1, <<>>) ELSE ParseFail

RECURSIVE DigitsEnd(_, _)
DigitsEnd(s, i) ==
  IF i <= Len(s) /\ s[i] \in DecDigits THEN DigitsEnd(s, i + 1) ELSE i

RECURSIVE DigitsValue(_, _, _)
DigitsValue(s, i, j) ==
  IF i >= j THEN 0
  ELSE DigitsValue(s, i, j - 1) * 10 + HexValue(s[j - 1])

\* A JSON number: "0", or digits that do not start with "0".
ParseNumber(s, i) ==
  IF s[i] = "0" THEN Parsed(JNum(0), i + 1)
  ELSE Parsed(JNum(DigitsValue(s, i, DigitsEnd(s, i))), DigitsEnd(s, i))

RECURSIVE ParseValue(_, _)
RECURSIVE ParseMembers(_, _, _)

\* The members of an object from position i (past "{" or ","), up to "}".
ParseMembers(s, i, acc) ==
  LET key == ParseString(s, SkipWhitespace(s, i))
      colon == SkipWhitespace(s, key.i)
      val == ParseValue(s, SkipWhitespace(s, colon + 1))
      next == SkipWhitespace(s, val.i)
  IN IF ~key.ok THEN ParseFail
     ELSE IF colon > Len(s) \/ s[colon] # ":" THEN ParseFail
     ELSE IF ~val.ok THEN ParseFail
     ELSE IF next > Len(s) THEN ParseFail
     ELSE IF s[next] = "," THEN ParseMembers(s, next + 1, Put(acc, key.v, val.v))
     ELSE IF s[next] = "}" THEN Parsed(JObj(Put(acc, key.v, val.v)), next + 1)
     ELSE ParseFail

ParseValue(s, i) ==
  IF i > Len(s) THEN ParseFail
  ELSE IF s[i] = "{" THEN
    IF SkipWhitespace(s, i + 1) <= Len(s) /\ s[SkipWhitespace(s, i + 1)] = "}"
      THEN Parsed(JObj(<<>>), SkipWhitespace(s, i + 1) + 1)
      ELSE ParseMembers(s, i + 1, <<>>)
  ELSE IF s[i] = "\"" THEN
    LET str == ParseString(s, i)
    IN IF str.ok THEN Parsed(JStr(str.v), str.i) ELSE ParseFail
  ELSE IF s[i] \in DecDigits THEN ParseNumber(s, i)
  ELSE IF StartsWith(s, i, <<"n","u","l","l">>) THEN Parsed(JNull, i + 4)
  ELSE IF StartsWith(s, i, <<"t","r","u","e">>) THEN Parsed(JBool(TRUE), i + 4)
  ELSE IF StartsWith(s, i, <<"f","a","l","s","e">>) THEN Parsed(JBool(FALSE), i + 5)
  ELSE ParseFail

\* JSON.parse(text): the value, or a SyntaxError.
JSONParse(text) ==
  LET r == ParseValue(text, SkipWhitespace(text, 1))
  IN IF r.ok /\ SkipWhitespace(text, r.i) > Len(text)
       THEN [ok |-> TRUE, v |-> r.v]
       ELSE [ok |-> FALSE]

----------------------------------------------------------------------------
(* The build: @rollup/plugin-replace substitutes __HONO_DOMAIN__ *)

ProductionDomain == <<"h","t","t","p","s",":","/","/","a","p","i",".","m","y","-","p","r","o","d","u","c","t","i","o","n","-","a","p","p",".","c","o","m">>

HonoDomain(nodeEnv) == IF nodeEnv = "development" THEN <<>> ELSE ProductionDomain

----------------------------------------------------------------------------
(* Promises, responses, errors *)

Pending == [state |-> "pending"]
Fulfilled(v) == [state |-> "fulfilled", value |-> v]
Rejected(e) == [state |-> "rejected", reason |-> e]

\* A Response: ok is true exactly for the statuses 200..299.
Response(status, statusText, body) ==
  [ok |-> status \in 200..299, status |-> status, statusText |-> statusText, body |-> body]

Error(message) == [t |-> "Error", message |-> message]
SyntaxError == [t |-> "SyntaxError"]

----------------------------------------------------------------------------
(* The state: the build's environment, and per call of apiRequest its      *)
(* arguments, its locals, the promise fetch returned, the promise it       *)
(* returned, and the calls it has made (fetch, response.json, new Error).  *)

NumCalls == 3

\* The most properties an argument object is given.
MaxParams == 2

Calls == 1..NumCalls

VARIABLES NODE_ENV, pc, args, options, url, fetchPromise, response, result, promise, effects

vars == <<NODE_ENV, pc, args, options, url, fetchPromise, response, result, promise, effects>>

----------------------------------------------------------------------------
(* The body of apiRequest, up to its first await *)

headers == <<Entry("Content-Type", "application/json")>>

\* A faulty variant: one options object is shared by the calls, so a body attached by
\* an earlier call is still there.
SharedOptions(method) ==
  [method |-> method, headers |-> headers,
   body |-> IF \E d \in Calls : options[d] # JUndefined /\ options[d].body # JUndefined
              THEN (CHOOSE b \in {options[d].body : d \in {x \in Calls : options[x] # JUndefined}} :
                      b # JUndefined)
              ELSE JUndefined]

\* const options = { method: method, headers: headers }
InitialOptions(method) ==
  [method |-> method, headers |-> headers, body |-> JUndefined]

\* Copies the properties of source onto target, in order.
RECURSIVE Assign(_, _)
Assign(target, source) ==
  IF source = <<>> THEN target
  ELSE Assign(Put(target, Head(source).k, Head(source).v), Tail(source))

\* A faulty variant: the spread the other way round, { ...b, ...a }.
SpreadReversed(a, b) == Assign(Assign(<<>>, b), a)

\* { ...a, ...b }
Spread(a, b) == Assign(Assign(<<>>, a), b)

\* A faulty variant: the "?" is appended whether or not there are query parameters.
qsParamsAlways(queryStringParams) ==
  <<"?">> \o UrlencodedSerialize(URLSearchParams(queryStringParams))

qsParams(queryStringParams) ==
  IF Len(ObjectKeys(queryStringParams)) > 0
    THEN <<"?">> \o UrlencodedSerialize(URLSearchParams(queryStringParams))
    ELSE <<>>

\* A faulty variant: the body is attached whether or not the payload is empty.
WithBodyAlways(opts, payload) ==
  [opts EXCEPT !.body = JStr(JSONStringify(JObj(payload)))]

\* if (Object.keys(payload).length > 0) options.body = JSON.stringify(payload)
WithBody(opts, payload) ==
  IF Len(ObjectKeys(payload)) > 0
    THEN [opts EXCEPT !.body = JStr(JSONStringify(JObj(payload)))]
    ELSE opts

\* `__HONO_DOMAIN__/api${path}${qsParams}`
Url(nodeEnv, path, qs) ==
  HonoDomain(nodeEnv) \o <<"/","a","p","i">> \o path \o qs

\* A faulty variant: the message leaves the URL out.
ErrorMessageWithoutUrl(resp, method, u, opts, res) ==
  <<"\n"," "," "," "," "," "," ","R","E","S","P","O","N","S","E"," ","S","T","A","T","U","S",":"," ">>
    \o JsToString(JNum(resp.status)) \o <<" ","|"," ">> \o resp.statusText
    \o <<"\n"," "," "," "," "," "," ","M","E","T","H","O","D",":"," ">> \o method
    \o <<"\n"," "," "," "," "," "," ","P","A","Y","L","O","A","D",":"," ">> \o JsToString(opts.body)
    \o <<"\n"," "," "," "," "," "," ","E","R","R","O","R","S",":"," ">> \o JSONStringify(res)
    \o <<"\n"," "," "," "," ">>

\* The message of the Error thrown for a response that is not ok.
ErrorMessage(resp, method, u, opts, res) ==
  <<"\n"," "," "," "," "," "," ","R","E","S","P","O","N","S","E"," ","S","T","A","T","U","S",":"," ">>
    \o JsToString(JNum(resp.status)) \o <<" ","|"," ">> \o resp.statusText
    \o <<"\n"," "," "," "," "," "," ","M","E","T","H","O","D",":"," ">> \o method
    \o <<"\n"," "," "," "," "," "," ","U","R","L",":"," ">> \o JsToString(u)
    \o <<"\n"," "," "," "," "," "," ","P","A","Y","L","O","A","D",":"," ">> \o JsToString(opts.body)
    \o <<"\n"," "," "," "," "," "," ","E","R","R","O","R","S",":"," ">> \o JSONStringify(res)
    \o <<"\n"," "," "," "," ">>

\* A call: the synchronous part runs to `await fetch(url, options)`.
apiRequest(c, method, path, queryStringParams, payload, additionalHeaders) ==
  /\ pc[c] = "idle"
  /\ args' = [args EXCEPT ![c] =
       [method |-> method, path |-> path, queryStringParams |-> queryStringParams,
        payload |-> payload, additionalHeaders |-> additionalHeaders]]
  /\ options' = [options EXCEPT ![c] =
       WithBody([InitialOptions(method) EXCEPT !.headers = Spread(@, additionalHeaders)],
                payload)]
  /\ url' = [url EXCEPT ![c] = JStr(Url(NODE_ENV, path, qsParams(queryStringParams)))]
  /\ fetchPromise' = [fetchPromise EXCEPT ![c] = Pending]
  /\ promise' = [promise EXCEPT ![c] = Pending]
  /\ effects' = [effects EXCEPT ![c] = Append(@, "fetch")]
  /\ pc' = [pc EXCEPT ![c] = "fetch"]
  /\ UNCHANGED <<NODE_ENV, response, result>>

----------------------------------------------------------------------------
(* The transport settles the promise fetch returned *)

TransportResponds(c, resp) ==
  /\ pc[c] = "fetch"
  /\ fetchPromise[c] = Pending
  /\ fetchPromise' = [fetchPromise EXCEPT ![c] = Fulfilled(resp)]
  /\ UNCHANGED <<NODE_ENV, pc, args, options, url, response, result, promise, effects>>

TransportFails(c, err) ==
  /\ pc[c] = "fetch"
  /\ fetchPromise[c] = Pending
  /\ fetchPromise' = [fetchPromise EXCEPT ![c] = Rejected(err)]
  /\ UNCHANGED <<NODE_ENV, pc, args, options, url, response, result, promise, effects>>

----------------------------------------------------------------------------
(* apiRequest resumes *)

\* A faulty variant: the transport's error is caught and wrapped in a new Error.
FetchRejectedWrapped(c) ==
  /\ pc[c] = "fetch"
  /\ fetchPromise[c].state = "rejected"
  /\ promise' = [promise EXCEPT ![c] = Rejected(Error(fetchPromise[c].reason.message))]
  /\ effects' = [effects EXCEPT ![c] = Append(@, "new Error")]
  /\ pc' = [pc EXCEPT ![c] = "done"]
  /\ UNCHANGED <<NODE_ENV, args, options, url, fetchPromise, response, result>>

\* A faulty variant: a failed fetch is issued once more before the call gives up.
FetchRejectedRetry(c) ==
  /\ pc[c] = "fetch"
  /\ fetchPromise[c].state = "rejected"
  /\ IF Len(effects[c]) < 2
       THEN /\ fetchPromise' = [fetchPromise EXCEPT ![c] = Pending]
            /\ effects' = [effects EXCEPT ![c] = Append(@, "fetch")]
            /\ UNCHANGED <<pc, promise>>
       ELSE /\ promise' = [promise EXCEPT ![c] = Rejected(fetchPromise[c].reason)]
            /\ pc' = [pc EXCEPT ![c] = "done"]
            /\ UNCHANGED <<fetchPromise, effects>>
  /\ UNCHANGED <<NODE_ENV, args, options, url, response, result>>

\* `await fetch(...)` throws: nothing catches it, the returned promise rejects.
FetchRejected(c) ==
  /\ pc[c] = "fetch"
  /\ fetchPromise[c].state = "rejected"
  /\ promise' = [promise EXCEPT ![c] = Rejected(fetchPromise[c].reason)]
  /\ pc' = [pc EXCEPT ![c] = "done"]
  /\ UNCHANGED <<NODE_ENV, args, options, url, fetchPromise, response, result, effects>>

\* `await fetch(...)` yields the response; either branch calls response.json().
FetchFulfilled(c) ==
  /\ pc[c] = "fetch"
  /\ fetchPromise[c].state = "fulfilled"
  /\ response' = [response EXCEPT ![c] = fetchPromise[c].value]
  /\ effects' = [effects EXCEPT ![c] = Append(@, "response.json")]
  /\ pc' = [pc EXCEPT ![c] = IF ~fetchPromise[c].value.ok THEN "errorJson" ELSE "json"]
  /\ UNCHANGED <<NODE_ENV, args, options, url, fetchPromise, result, promise>>

\* A faulty variant: a decode failure is caught and the descriptive Error thrown anyway.
ErrorJsonSettledCaught(c) ==
  /\ pc[c] = "errorJson"
  /\ result' = [result EXCEPT ![c] =
       IF JSONParse(response[c].body).ok THEN JSONParse(response[c].body).v ELSE JNull]
  /\ effects' = [effects EXCEPT ![c] = Append(@, "new Error")]
  /\ promise' = [promise EXCEPT ![c] =
       Rejected(Error(ErrorMessage(response[c], args[c].method, url[c], options[c],
                                   result'[c])))]
  /\ pc' = [pc EXCEPT ![c] = "done"]
  /\ UNCHANGED <<NODE_ENV, args, options, url, fetchPromise, response>>

\* `const result = await response.json()` settles, then the throw.
ErrorJsonSettled(c) ==
  /\ pc[c] = "errorJson"
  /\ IF JSONParse(response[c].body).ok
       THEN /\ result' = [result EXCEPT ![c] = JSONParse(response[c].body).v]
            /\ effects' = [effects EXCEPT ![c] = Append(@, "new Error")]
            /\ promise' = [promise EXCEPT ![c] =
                 Rejected(Error(ErrorMessage(response[c], args[c].method, url[c], options[c],
                                             JSONParse(response[c].body).v)))]
       ELSE /\ promise' = [promise EXCEPT ![c] = Rejected(SyntaxError)]
            /\ UNCHANGED <<result, effects>>
  /\ pc' = [pc EXCEPT ![c] = "done"]
  /\ UNCHANGED <<NODE_ENV, args, options, url, fetchPromise, response>>

\* A faulty variant: the response itself is returned, undecoded.
JsonSettledUndecoded(c) ==
  /\ pc[c] = "json"
  /\ promise' = [promise EXCEPT ![c] = Fulfilled(response[c])]
  /\ pc' = [pc EXCEPT ![c] = "done"]
  /\ UNCHANGED <<NODE_ENV, args, options, url, fetchPromise, response, result, effects>>

\* `return response.json()`: the returned promise follows the decode.
JsonSettled(c) ==
  /\ pc[c] = "json"
  /\ promise' = [promise EXCEPT ![c] =
       IF JSONParse(response[c].body).ok
         THEN Fulfilled(JSONParse(response[c].body).v)
         ELSE Rejected(SyntaxError)]
  /\ pc' = [pc EXCEPT ![c] = "done"]
  /\ UNCHANGED <<NODE_ENV, args, options, url, fetchPromise, response, result, effects>>

----------------------------------------------------------------------------
(* Inputs *)

GET == <<"G","E","T">>
POST == <<"P","O","S","T">>

\* The objects of at most n properties with keys in K and values in V.
Objects(K, V, n) ==
  UNION {{o \in [1..m -> {Entry(k, v) : k \in K, v \in V}] :
            \A i, j \in 1..m : i # j => o[i].k # o[j].k} : m \in 0..n}

OkJson == Response(200, <<"O","K">>, <<"{","\"","i","d","\"",":","1","}">>)
NoContent == Response(204, <<"N","o"," ","C","o","n","t","e","n","t">>, <<>>)
NotFound ==
  Response(404, <<"N","o","t"," ","F","o","u","n","d">>,
           <<"{","\"","e","r","r","o","r","\"",":","\"","n","o","t"," ","f","o","u","n","d","\"","}">>)
ServerError ==
  Response(500, <<"I","n","t","e","r","n","a","l"," ","S","e","r","v","e","r"," ","E","r","r","o","r">>,
           <<"<","h","1",">","B","a","d"," ","G","a","t","e","w","a","y","<","/","h","1",">">>)
BadGateway == Response(502, <<"B","a","d"," ","G","a","t","e","w","a","y">>, <<>>)

FailedToFetch ==
  [t |-> "TypeError", message |-> <<"F","a","i","l","e","d"," ","t","o"," ","f","e","t","c","h">>]
Aborted ==
  [t |-> "AbortError",
   message |-> <<"T","h","e"," ","o","p","e","r","a","t","i","o","n"," ","w","a","s"," ","a","b","o","r","t","e","d",".">>]

Environments == {"development", "production"}

Init ==
  /\ NODE_ENV \in Environments
  /\ pc = [c \in Calls |-> "idle"]
  /\ args = [c \in Calls |-> JUndefined]
  /\ options = [c \in Calls |-> JUndefined]
  /\ url = [c \in Calls |-> JUndefined]
  /\ fetchPromise = [c \in Calls |-> JUndefined]
  /\ response = [c \in Calls |-> JUndefined]
  /\ result = [c \in Calls |-> JUndefined]
  /\ promise = [c \in Calls |-> JUndefined]
  /\ effects = [c \in Calls |-> <<>>]

\* The steps of the calls in C, with arguments and transport outcomes drawn
\* from the given sets.
NextOver(C, M, P, Q, PL, H, R, E) ==
  \/ \E c \in C, method \in M, path \in P, queryStringParams \in Q, payload \in PL,
        additionalHeaders \in H :
       apiRequest(c, method, path, queryStringParams, payload, additionalHeaders)
  \/ \E c \in C, resp \in R : TransportResponds(c, resp)
  \/ \E c \in C, err \in E : TransportFails(c, err)
  \/ \E c \in C : FetchRejected(c)
  \/ \E c \in C : FetchFulfilled(c)
  \/ \E c \in C : ErrorJsonSettled(c)
  \/ \E c \in C : JsonSettled(c)

(* One call, every kind of response and transport failure. *)

Paths == {<<"/","u","s","e","r","s","/","1">>}
QueryStringParams == {<<>>, <<Entry(<<"q">>, JStr(<<"a"," ","b">>))>>}
Payloads == {<<>>, <<Entry(<<"n","a","m","e">>, JStr(<<"x">>))>>}
AdditionalHeaders == {<<>>}
Responses == {OkJson, NoContent, NotFound, ServerError, BadGateway}
TransportErrors == {FailedToFetch, Aborted}

Next ==
  NextOver({1}, {GET, POST}, Paths, QueryStringParams, Payloads, AdditionalHeaders,
           Responses, TransportErrors)

Spec == Init /\ [][Next]_vars
(* One call, query parameters and paths of every kind. *)

SearchPath == <<"/","s","e","a","r","c","h">>
UserPath == <<"/","u","s","e","r","s","/","1">>
PathWithQuery == <<"/","s","e","a","r","c","h","?","s","o","r","t","=","a","s","c">>

QueryKeys == {<<"q">>, <<"l","i","m","i","t">>, <<"a"," ","U+D800","=">>}
QueryValues ==
  {JStr(<<"c","o","m","f","o","r","t","a","b","l","e"," ","s","h","o","e","s">>),
   JStr(<<"a","&","b","=","+","%","U+00E9">>),
   JStr(<<"U+D800">>),
   JStr(<<>>),
   JNum(10)}

NextUrl ==
  NextOver({1}, {GET}, {SearchPath, PathWithQuery}, Objects(QueryKeys, QueryValues, MaxParams),
           {<<>>}, {<<>>}, {OkJson, NotFound}, {FailedToFetch})

SpecUrl == Init /\ [][NextUrl]_vars

(* One call, payloads of every kind. *)

PayloadKeys == {<<"n","a","m","e">>, <<"p","r","i","c","e">>, <<"a","\"","b">>}
PayloadValues ==
  {JStr(<<"x">>),
   JStr(<<"T","\"","\\","\n","U+00E9">>),
   JNum(2500),
   JNull,
   JUndefined,
   JObj(<<Entry(<<"s","i","z","e">>, JStr(<<"M">>)), Entry(<<"o","l","d">>, JBool(FALSE))>>)}

NextBody ==
  NextOver({1}, {GET, POST}, {<<"/","i","t","e","m","s">>}, {<<>>},
           Objects(PayloadKeys, PayloadValues, MaxParams), {<<>>},
           {OkJson, NotFound}, {FailedToFetch})

SpecBody == Init /\ [][NextBody]_vars

(* One call, additional headers of every kind. *)

HeaderNames == {"Content-Type", "content-type", "Accept"}
HeaderValues == {"application/json", "text/plain"}

NextHeaders ==
  NextOver({1}, {GET, POST}, {UserPath}, {<<>>}, {<<>>},
           Objects(HeaderNames, HeaderValues, MaxParams),
           {OkJson, NotFound}, {FailedToFetch})

SpecHeaders == Init /\ [][NextHeaders]_vars

(* NumCalls calls in flight at once. *)

InitProduction == Init /\ NODE_ENV = "production"

NextConcurrent ==
  NextOver(Calls, {POST}, {<<"/","i","t","e","m","s">>}, {<<>>}, Payloads, {<<>>},
           {OkJson, NotFound}, {FailedToFetch})

SpecConcurrent == InitProduction /\ [][NextConcurrent]_vars

----------------------------------------------------------------------------
(* Properties of one call's outcome *)

Done(c) == pc[c] = "done"

Responded(c) == response[c] # JUndefined

Decodable(c) == JSONParse(response[c].body).ok

Decoded(c) == JSONParse(response[c].body).v

\* sub occurs in s.
Contains(s, sub) ==
  \E i \in 0..(Len(s) - Len(sub)) : SubSeq(s, i + 1, i + Len(sub)) = sub

Count(s, x) == Cardinality({i \in 1..Len(s) : s[i] = x})

\* C1 as stated: a call whose response has a 2xx status resolves to the decoded
\* JSON body of the response and never rejects.
C1_Every2xxResolves ==
  \A c \in Calls :
    (Done(c) /\ Responded(c) /\ response[c].ok)
      => (promise[c].state = "fulfilled" /\ promise[c].value = Decoded(c))

\* C1 amended: a call whose response has a 2xx status and a JSON-decodable body
\* resolves to the decoded body; with a 2xx status and a body that is not JSON
\* (an empty 204 body) it rejects with the decode failure.
C1_2xxResolvesToDecodedBody ==
  \A c \in Calls :
    (Done(c) /\ Responded(c) /\ response[c].ok)
      => IF Decodable(c)
           THEN promise[c] = Fulfilled(Decoded(c))
           ELSE promise[c] = Rejected(SyntaxError)

C1_Witness ==
  \E c \in Calls :
    /\ Done(c)
    /\ response[c] = OkJson
    /\ promise[c] = Fulfilled(JObj(<<Entry(<<"i","d">>, JNum(1))>>))

\* C2: a call whose response has a non-2xx status and a JSON-decodable body
\* rejects with one Error whose message holds the status code, the status text,
\* the caller's method, the dispatched URL, the outgoing request body (the text
\* "undefined" when no body was attached) and the JSON text of the decoded
\* error body.
C2_ErrorMessageEmbedsSixFields ==
  \A c \in Calls :
    (Done(c) /\ Responded(c) /\ ~response[c].ok /\ Decodable(c))
      => /\ promise[c].state = "rejected"
         /\ promise[c].reason.t = "Error"
         /\ Count(effects[c], "new Error") = 1
         /\ Contains(promise[c].reason.message, NumberToString(response[c].status))
         /\ Contains(promise[c].reason.message, response[c].statusText)
         /\ Contains(promise[c].reason.message, args[c].method)
         /\ Contains(promise[c].reason.message, url[c].s)
         /\ Contains(promise[c].reason.message, JsToString(options[c].body))
         /\ Contains(promise[c].reason.message, JSONStringify(Decoded(c)))

C2_Witness ==
  \E c \in Calls :
    /\ Done(c)
    /\ response[c] = NotFound
    /\ args[c].method = POST
    /\ options[c].body = JStr(<<"{","\"","n","a","m","e","\"",":","\"","x","\"","}">>)
    /\ promise[c].state = "rejected"
    /\ Contains(promise[c].reason.message, <<"4","0","4">>)
    /\ Contains(promise[c].reason.message, <<"P","O","S","T">>)
    /\ Contains(promise[c].reason.message, <<"n","o","t"," ","f","o","u","n","d">>)
    /\ Contains(promise[c].reason.message, <<"{","\"","n","a","m","e","\"",":","\"","x","\"","}">>)

\* C3: a call whose response has a non-2xx status and a body that is not JSON
\* rejects with the decode failure; the descriptive Error is never constructed.
C3_DecodeFailurePropagates ==
  \A c \in Calls :
    (Responded(c) /\ ~response[c].ok /\ ~Decodable(c))
      => /\ Count(effects[c], "new Error") = 0
         /\ result[c] = JUndefined
         /\ Done(c) => promise[c] = Rejected(SyntaxError)

C3_Witness ==
  \E c \in Calls :
    /\ Done(c)
    /\ response[c] = ServerError
    /\ promise[c] = Rejected(SyntaxError)

\* C4: when fetch itself fails, the call rejects with exactly the error the
\* transport raised; no response is decoded and no Error is constructed.
C4_TransportFailureUnwrapped ==
  \A c \in Calls :
    (fetchPromise[c] # JUndefined /\ fetchPromise[c].state = "rejected")
      => /\ effects[c] = <<"fetch">>
         /\ response[c] = JUndefined
         /\ result[c] = JUndefined
         /\ Done(c) => promise[c] = Rejected(fetchPromise[c].reason)

C4_Witness ==
  \E c \in Calls :
    /\ Done(c)
    /\ fetchPromise[c] = Rejected(FailedToFetch)
    /\ promise[c] = Rejected(FailedToFetch)

\* The call failed: no response, a non-2xx status, or a body that is not JSON.
Failed(c) ==
  \/ fetchPromise[c].state = "rejected"
  \/ Responded(c) /\ (~response[c].ok \/ ~Decodable(c))

\* C9: a call invokes fetch at most once, decodes the response body exactly
\* once on either branch and only after fetch has completed, and every failure
\* ends the call with the returned promise rejected.
C9_SingleFetchSingleDecode ==
  \A c \in Calls :
    /\ Count(effects[c], "fetch") <= 1
    /\ Count(effects[c], "response.json") <= 1
    /\ Count(effects[c], "response.json") = 1
         => (fetchPromise[c].state = "fulfilled" /\ effects[c][1] = "fetch")
    /\ (Done(c) /\ Responded(c)) => Count(effects[c], "response.json") = 1
    /\ (Done(c) /\ Failed(c)) => promise[c].state = "rejected"

C9_Witness ==
  \E c \in Calls :
    /\ Done(c)
    /\ effects[c] = <<"fetch", "response.json", "new Error">>
    /\ promise[c].state = "rejected"
----------------------------------------------------------------------------
(* Properties of the request a call dispatches *)

Started(c) == pc[c] # "idle"

\* base + "/api" + path, for the base the build resolved.
UrlPrefix(c) ==
  (IF NODE_ENV = "development" THEN <<>> ELSE ProductionDomain)
    \o <<"/","a","p","i">> \o args[c].path

\* C5 as stated: with no query parameters the URL passed to fetch contains no
\* "?", for every path and both values of the base.
C5_NoQuestionMarkForEveryPath ==
  \A c \in Calls :
    (Started(c) /\ args[c].queryStringParams = <<>>)
      => ~Contains(url[c].s, <<"?">>)

\* C5 amended: with no query parameters the URL passed to fetch is exactly
\* base + "/api" + path, nothing appended, for both values of the base; it
\* contains a "?" only if the caller's path contains one.
C5_NothingAppendedToPath ==
  \A c \in Calls :
    (Started(c) /\ args[c].queryStringParams = <<>>)
      => /\ url[c].s = UrlPrefix(c)
         /\ ~Contains(args[c].path, <<"?">>) => ~Contains(url[c].s, <<"?">>)

C5_Witness ==
  \E c \in Calls :
    /\ Started(c)
    /\ args[c].queryStringParams = <<>>
    /\ args[c].path = SearchPath
    /\ url[c].s = <<"h","t","t","p","s",":","/","/","a","p","i",".","m","y","-","p","r","o","d","u","c","t","i","o","n","-","a","p","p",".","c","o","m","/","a","p","i","/","s","e","a","r","c","h">>

\* The query string of the dispatched URL: what follows base + "/api" + path + "?".
QueryStringOf(c) == SubSeq(url[c].s, Len(UrlPrefix(c)) + 2, Len(url[c].s))

HasQueryString(c) ==
  /\ Len(url[c].s) > Len(UrlPrefix(c))
  /\ SubSeq(url[c].s, 1, Len(UrlPrefix(c)) + 1) = UrlPrefix(c) \o <<"?">>

Pairs(list) == {<<list[i].k, list[i].v>> : i \in 1..Len(list)}

RECURSIVE JsonImage(_)
RECURSIVE JsonImageEntries(_)

JsonImageEntries(e) ==
  IF e = <<>> THEN <<>>
  ELSE (IF Head(e).v.t = "undefined" THEN <<>>
        ELSE <<Entry(Head(e).k, JsonImage(Head(e).v))>>)
         \o JsonImageEntries(Tail(e))

JsonImage(v) == IF v.t = "object" THEN JObj(JsonImageEntries(v.e)) ELSE v

\* C7 as stated: the request carries a body if and only if the payload is not
\* empty, the body is the JSON text of the payload, and deserialising it
\* reproduces the payload.
C7_BodyReproducesPayload ==
  \A c \in Calls :
    Started(c)
      => /\ options[c].body # JUndefined <=> args[c].payload # <<>>
         /\ args[c].payload # <<>>
              => /\ options[c].body = JStr(JSONStringify(JObj(args[c].payload)))
                 /\ JSONParse(options[c].body.s) = [ok |-> TRUE, v |-> JObj(args[c].payload)]

\* C7 amended: the request carries a body if and only if the payload is not
\* empty, whatever the method; the body is the JSON text of the payload, and
\* for a payload of strings, numbers, booleans, null, undefined and mappings
\* of these, deserialising it reproduces the payload without its properties
\* whose value is undefined.
C7_BodyReproducesJsonImage ==
  \A c \in Calls :
    Started(c)
      => /\ options[c].body # JUndefined <=> args[c].payload # <<>>
         /\ args[c].payload # <<>>
              => /\ options[c].body = JStr(JSONStringify(JObj(args[c].payload)))
                 /\ JSONParse(options[c].body.s)
                      = [ok |-> TRUE, v |-> JsonImage(JObj(args[c].payload))]

C7_Witness ==
  \E c \in Calls :
    /\ Started(c)
    /\ args[c].method = POST
    /\ args[c].payload = <<Entry(<<"n","a","m","e">>, JStr(<<"x">>))>>
    /\ options[c].body = JStr(<<"{","\"","n","a","m","e","\"",":","\"","x","\"","}">>)
    /\ ~Contains(url[c].s, <<"?">>)

\* C8: the headers passed to fetch hold every header of the caller with the
\* caller's value, Content-Type: application/json unless the caller gave a
\* Content-Type, and no header besides these.
C8_HeadersMerged ==
  \A c \in Calls :
    Started(c)
      => LET h == options[c].headers
             a == args[c].additionalHeaders
         IN /\ \A i \in 1..Len(a) : \E j \in 1..Len(h) : h[j] = a[i]
            /\ (\A i \in 1..Len(a) : a[i].k # "Content-Type")
                 => \E j \in 1..Len(h) : h[j] = Entry("Content-Type", "application/json")
            /\ {h[j].k : j \in 1..Len(h)} = {"Content-Type"} \cup {a[i].k : i \in 1..Len(a)}
            /\ \A i, j \in 1..Len(h) : h[i].k = h[j].k => i = j

C8_Witness ==
  \E c \in Calls :
    /\ Started(c)
    /\ args[c].additionalHeaders =
         <<Entry("Accept", "application/json"), Entry("Content-Type", "text/plain")>>
    /\ options[c].headers =
         <<Entry("Content-Type", "text/plain"), Entry("Accept", "application/json")>>

----------------------------------------------------------------------------
(* Calls in flight at once *)

Locals(c) ==
  <<pc[c], args[c], options[c], url[c], fetchPromise[c], response[c], result[c],
    promise[c], effects[c]>>

\* Calls given the same arguments dispatch the same request, and with the same
\* outcome of fetch they end the same way, whatever the other calls did.
SameArgumentsSameRequest ==
  \A c, d \in Calls :
    (Started(c) /\ Started(d) /\ args[c] = args[d])
      => /\ url[c] = url[d]
         /\ options[c] = options[d]
         /\ (Done(c) /\ Done(d) /\ fetchPromise[c] = fetchPromise[d])
              => promise[c] = promise[d]

\* A step is a step of one call: it leaves every other call as it was, and it
\* never changes the arguments a call was given.
StepOfOneCall ==
  /\ \A c, d \in Calls : (c # d /\ pc'[c] # pc[c]) => Locals(d)' = Locals(d)
  /\ \A c \in Calls : Started(c) => args'[c] = args[c]

\* C10: however the calls in flight interleave, a call's request is determined
\* by its own arguments and its outcome by its own response; no step of a call
\* touches another call's state or the arguments.
C10_CallsAreIndependent == []SameArgumentsSameRequest /\ [][StepOfOneCall]_vars

C10_Witness ==
  \E c, d, e \in Calls :
    /\ c # d
    /\ Done(c) /\ Done(d) /\ Done(e)
    /\ args[c] = args[d]
    /\ args[e] # args[c]
    /\ options[e].body # JUndefined
    /\ options[c].body = JUndefined
    /\ fetchPromise[c] # fetchPromise[d]
====
